---- MODULE Spec2Model ----
(***************************************************************************)
(* OpenSCAD MCP server (src/main.py): the scratchpad state, its durable    *)
(* record, and the five tool handlers show_openscad_script,                *)
(* create_openscad_script, view_render, export_model_to_stl and            *)
(* save_openscad_script, each stepped statement by statement so that       *)
(* overlapping calls interleave at every read of the shared state.         *)
(*                                                                         *)
(* Text is a sequence of one-character strings.                            *)
(***************************************************************************)
EXTENDS Integers, Sequences, FiniteSets, TLC

\* ---------------------------------------------------------------- bounds
\* longest script text passed to create_openscad_script
MaxScriptLen == 1
\* number of tool calls the transport dispatches in one run
MaxCalls == 2
\* the calls the transport may have in flight at once
Workers == {1, 2}
\* names tempfile may pick in the temporary directory: one per call, so a
\* name no existing file has is always there to be found
TmpNames == 1..MaxCalls

\* ------------------------------------------------------------------ text
\* characters str.strip() removes (those of the script alphabet below)
Whitespace == {" ", "\n"}

ScriptChars == {"c", "\n"}

Scripts == UNION {[1..n -> ScriptChars] : n \in 0..MaxScriptLen}

RECURSIVE LStrip(_)
LStrip(s) ==
    IF s # <<>> /\ Head(s) \in Whitespace THEN LStrip(Tail(s)) ELSE s

RECURSIVE RStrip(_)
RStrip(s) ==
    IF s # <<>> /\ s[Len(s)] \in Whitespace
    THEN RStrip(SubSeq(s, 1, Len(s) - 1)) ELSE s

\* str.strip()
Strip(s) == RStrip(LStrip(s))

\* `not state.script_content.strip()`: the stripped text is the empty string
NoContentEmptyOnly(s) == s = <<>>

NoContent(s) == Strip(s) = <<>>

\* len(s.split('\n'))
SplitLines(s) == 1 + Cardinality({k \in DOMAIN s : s[k] = "\n"})

\* sub in s (Python's substring test)
Contains(s, sub) ==
    \E k \in 0..(Len(s) - Len(sub)) : SubSeq(s, k + 1, k + Len(sub)) = sub

EndsWith(s, suf) ==
    Len(s) >= Len(suf) /\ SubSeq(s, Len(s) - Len(suf) + 1, Len(s)) = suf

\* "No script content in scratchpad"
MsgNoScript ==
    <<"N", "o", " ", "s", "c", "r", "i", "p", "t", " ", "c", "o", "n", "t",
      "e", "n", "t", " ", "i", "n", " ", "s", "c", "r", "a", "t", "c", "h",
      "p", "a", "d">>

\* "Current OpenSCAD script:\n\n"
MsgCurrentScript ==
    <<"C", "u", "r", "r", "e", "n", "t", " ", "O", "p", "e", "n", "S", "C",
      "A", "D", " ", "s", "c", "r", "i", "p", "t", ":", "\n", "\n">>

\* "OpenSCAD error: "
MsgRenderError ==
    <<"O", "p", "e", "n", "S", "C", "A", "D", " ", "e", "r", "r", "o", "r",
      ":", " ">>

\* "OpenSCAD export error: "
MsgExportError ==
    <<"O", "p", "e", "n", "S", "C", "A", "D", " ", "e", "x", "p", "o", "r",
      "t", " ", "e", "r", "r", "o", "r", ":", " ">>

\* ------------------------------------------------------- program constants
\* CAMERA_VIEWS, in the dict's insertion order: <<name, camera argument>>
CAMERA_VIEWS_Extra ==
    << <<"isometric", "--camera=10,10,10,60,0,45,25">>,
       <<"front", "--camera=0,0,10,0,0,0,25">>,
       <<"back", "--camera=0,0,-10,0,0,180,25">>,
       <<"left", "--camera=-10,0,0,0,0,90,25">>,
       <<"right", "--camera=10,0,0,0,0,270,25">>,
       <<"top", "--camera=0,0,10,0,0,0,25">>,
       <<"bottom", "--camera=0,0,-10,0,0,0,25">>,
       <<"side", "--camera=10,0,0,0,0,270,25">> >>

CAMERA_VIEWS ==
    << <<"isometric", "--camera=10,10,10,60,0,45,25">>,
       <<"front", "--camera=0,0,10,0,0,0,25">>,
       <<"back", "--camera=0,0,-10,0,0,180,25">>,
       <<"left", "--camera=-10,0,0,0,0,90,25">>,
       <<"right", "--camera=10,0,0,0,0,270,25">>,
       <<"top", "--camera=0,0,10,0,0,0,25">>,
       <<"bottom", "--camera=0,0,-10,0,0,0,25">> >>

\* CAMERA_VIEWS.keys(), as joined into the error message
Keys(d) == [k \in DOMAIN d |-> d[k][1]]

\* `view in CAMERA_VIEWS`
HasKey(d, name) == \E k \in DOMAIN d : d[k][1] = name

\* CAMERA_VIEWS[view]
Lookup(d, name) == d[CHOOSE k \in DOMAIN d : d[k][1] = name][2]

\* subprocess.run(..., timeout=30) in view_render
RENDER_TIMEOUT == 30
\* subprocess.run(..., timeout=60) in export_model_to_stl
EXPORT_TIMEOUT == 60

\* ------------------------------------------------------------------ inputs
\* view names a caller may pass: the presets and names outside the table
ViewInputs == {"isometric", "side"}

\* standard-error texts of a failing compiler run
Diagnostics == {<<"E">>, <<"E", "\n">>}

\* wall-clock seconds a compiler run would need if left alone
Durations == {1, 31, 61}

\* --------------------------------------------------------------- the state
VARIABLES
    script_content,   \* state.script_content
    state_file,       \* STATE_FILE on disk
    tmp_files,        \* the temporary directory: path -> file
    work_files,       \* WORK_DIR: file name -> file
    call,             \* per worker: the tool call it is executing
    dispatched        \* number of tool calls dispatched so far

vars == <<script_content, state_file, tmp_files, work_files, call, dispatched>>

TmpPaths == TmpNames \X {"scad", "png"}

NoFile == [kind |-> "absent"]

NoResult == [kind |-> "none"]

NoOutcome == [kind |-> "none"]

\* "No script content to render" / "to export" / "to save"
NoContentResult(op) == [kind |-> "no_content", to |-> op]

\* a worker with no call yet
IdleCall ==
    [op |-> "none", pc |-> "idle", arg |-> <<>>, snap |-> <<>>, tmp |-> 0,
     dest |-> <<>>, proc |-> "none", fed |-> <<>>, out |-> NoOutcome,
     result |-> NoResult, effects |-> {}]

\* OpenSCADState.load_state: the script of a readable record, else ""
load_state(file) ==
    IF file.kind = "json" THEN file.script_content ELSE <<>>

\* OpenSCADState.__init__: the service starts with no state file or with one
\* holding a script, which load_state reads; the temporary directory and
\* the working directory hold no file of the service yet
Init ==
    /\ state_file \in {[kind |-> "missing"],
                       [kind |-> "json", script_content |-> <<"c">>]}
    /\ script_content = load_state(state_file)
    /\ dispatched = 0
    /\ tmp_files = [p \in TmpPaths |-> NoFile]
    /\ work_files = {}
    /\ call = [i \in Workers |-> IdleCall]

\* no finished call is waiting for its result to be delivered
Quiet == \A j \in Workers : call[j].pc # "done"

At(i, label) == Quiet /\ call[i].pc = label

\* the call of worker i returns r
Return(c, r) == [c EXCEPT !.pc = "done", !.result = r]

\* a file stops being attributed to worker i
Disown(f, i) ==
    IF f.kind # "absent" /\ f.owner = i THEN [f EXCEPT !.owner = 0] ELSE f

\* the transport dispatches a tool call to a free worker
Dispatch(i, op, arg, first) ==
    /\ At(i, "idle")
    /\ dispatched < MaxCalls
    /\ dispatched' = dispatched + 1
    /\ call' = [call EXCEPT ![i] =
                  [IdleCall EXCEPT !.op = op, !.pc = first, !.arg = arg]]
    /\ UNCHANGED <<script_content, state_file, tmp_files, work_files>>

\* the transport delivers the result of a finished call, which frees the
\* worker; the delivery comes before any other step, as it touches nothing
\* the other calls read
Respond(i) ==
    /\ call[i].pc = "done"
    /\ call' = [call EXCEPT ![i] = IdleCall]
    /\ tmp_files' = [p \in DOMAIN tmp_files |-> Disown(tmp_files[p], i)]
    /\ work_files' = {Disown(f, i) : f \in work_files}
    /\ UNCHANGED <<script_content, state_file, dispatched>>

\* ------------------------------------------------- show_openscad_script
CallShow(i) == Dispatch(i, "show", <<>>, "sh_guard")

\* line 89-90
ShowGuardResetting(i) ==
    /\ At(i, "sh_guard")
    /\ call' = [call EXCEPT ![i] =
          IF NoContent(script_content)
          THEN Return([@ EXCEPT !.snap = script_content],
                      [kind |-> "show_empty", text |-> MsgNoScript])
          ELSE [@ EXCEPT !.snap = script_content, !.pc = "sh_read"]]
    /\ script_content' = IF NoContent(script_content) THEN <<>>
                         ELSE script_content
    /\ UNCHANGED <<state_file, tmp_files, work_files, dispatched>>

ShowGuard(i) ==
    /\ At(i, "sh_guard")
    /\ call' = [call EXCEPT ![i] =
          IF NoContent(script_content)
          THEN Return([@ EXCEPT !.snap = script_content],
                      [kind |-> "show_empty", text |-> MsgNoScript])
          ELSE [@ EXCEPT !.snap = script_content, !.pc = "sh_read"]]
    /\ UNCHANGED <<script_content, state_file, tmp_files, work_files, dispatched>>

\* f"Current OpenSCAD script:\n\n{state.script_content}"
ShowTextHeaderOnly(s) == [kind |-> "show", text |-> MsgCurrentScript]

ShowText(s) == [kind |-> "show", text |-> MsgCurrentScript \o s]

\* line 91
ShowRead(i) ==
    /\ At(i, "sh_read")
    /\ call' = [call EXCEPT ![i] = Return(@, ShowText(script_content))]
    /\ UNCHANGED <<script_content, state_file, tmp_files, work_files, dispatched>>

\* ------------------------------------------------- create_openscad_script
CallCreate(i) ==
    \E s \in Scripts : Dispatch(i, "create", s, "c_assign")

\* the value create_openscad_script returns (lines 106-109)
Updated(s) == [kind |-> "updated", lines |-> SplitLines(s), chars |-> Len(s)]

\* line 104
CreateAssign(i) ==
    /\ At(i, "c_assign")
    /\ script_content' = call[i].arg
    /\ call' = [call EXCEPT ![i].pc = "c_save"]
    /\ UNCHANGED <<state_file, tmp_files, work_files, dispatched>>

\* save_state, lines 76-77: the exception is logged and swallowed, and
\* create_openscad_script goes on to report the update (lines 106-109)
OnSaveErrorSurfaced(c) ==
    Return([c EXCEPT !.effects = @ \cup {"save_failed"}],
           [kind |-> "update_error"])

OnSaveError(c) ==
    Return([c EXCEPT !.effects = @ \cup {"save_failed"}], Updated(c.arg))

\* save_state, lines 72-73: snapshot the script, open the file for writing
\* (which truncates it) or fail to open it
CreateSaveOpen(i) ==
    /\ At(i, "c_save")
    /\ \/ /\ state_file' = [kind |-> "truncated"]
          /\ call' = [call EXCEPT ![i] =
                        [@ EXCEPT !.snap = script_content, !.pc = "c_dump"]]
       \/ /\ state_file' = state_file
          /\ call' = [call EXCEPT ![i] =
                        OnSaveError([@ EXCEPT !.snap = script_content])]
    /\ UNCHANGED <<script_content, tmp_files, work_files, dispatched>>

\* save_state, lines 74-77, then lines 106-109: the dump completes or fails
\* part-way; either way the call reports the update
CreateSaveDump(i) ==
    /\ At(i, "c_dump")
    /\ \/ /\ state_file' = [kind |-> "json", script_content |-> call[i].snap]
          /\ call' = [call EXCEPT ![i] = Return(@, Updated(call[i].arg))]
       \/ /\ state_file' = [kind |-> "truncated"]
          /\ call' = [call EXCEPT ![i] = OnSaveError(@)]
    /\ UNCHANGED <<script_content, tmp_files, work_files, dispatched>>

\* ------------------------------------------------------------ file system
TmpFile(i, data) == [kind |-> "file", owner |-> i, data |-> data]

TmpExists(n, ext) == tmp_files[<<n, ext>>].kind # "absent"

\* os.path existence test and open() on WORK_DIR / name
WorkExists(name) == \E f \in work_files : f.name = name

WorkFile(name) == CHOOSE f \in work_files : f.name = name

\* WORK_DIR after name is created or overwritten with data by worker i
WorkWrite(files, name, i, data) ==
    {f \in files : f.name # name}
        \cup {[kind |-> "file", name |-> name, owner |-> i, data |-> data]}

\* scad_path.replace('.scad', '.png'): the same temporary name, as an image
PngPath(n) == <<n, "png">>

ScadPath(n) == <<n, "scad">>

\* what the compiler writes for the input it was handed
Compiled(fed, camera) == [source |-> fed, camera |-> camera]

\* ------------------------------------------------------------- view_render
CallRender(i) ==
    \E v \in ViewInputs : Dispatch(i, "render", v, "r_guard")

\* line 126
InvalidView(view) ==
    [kind |-> "invalid_view", view |-> view, names |-> Keys(CAMERA_VIEWS)]

\* lines 122-126: the empty-content guard, then the view lookup
RenderGuard(i) ==
    /\ At(i, "r_guard")
    /\ call' = [call EXCEPT ![i] =
          IF NoContent(script_content)
          THEN Return([@ EXCEPT !.snap = script_content],
                      NoContentResult("render"))
          ELSE IF ~HasKey(CAMERA_VIEWS, call[i].arg)
          THEN Return([@ EXCEPT !.snap = script_content],
                      InvalidView(call[i].arg))
          ELSE [@ EXCEPT !.snap = script_content, !.pc = "r_open"]]
    /\ UNCHANGED <<script_content, state_file, tmp_files, work_files, dispatched>>

\* tempfile.NamedTemporaryFile(mode='w', suffix='.scad', delete=False):
\* a name no existing file has is created empty (the first such name: which
\* free name tempfile draws makes no difference to the handlers), or the
\* creation fails and the handler's `except Exception` returns err
TmpOpen(i, here, next, err) ==
    /\ At(i, here)
    /\ \/ \E n \in TmpNames :
            /\ ~TmpExists(n, "scad")
            /\ \A m \in TmpNames : m < n => TmpExists(m, "scad")
            /\ tmp_files' = [tmp_files EXCEPT ![ScadPath(n)] = TmpFile(i, <<>>)]
            /\ call' = [call EXCEPT ![i] =
                  [@ EXCEPT !.tmp = n, !.pc = next,
                            !.effects = @ \cup {"tmpfile"}]]
       \/ /\ tmp_files' = tmp_files
          /\ call' = [call EXCEPT ![i] = Return(@, err)]
    /\ UNCHANGED <<script_content, state_file, work_files, dispatched>>

\* the exception raised inside the `with` block leaves the block, which
\* closes the file, and reaches the handler's `except Exception`: the inner
\* try/finally has not been entered
WriteFailedUncaught(c, err) == Return(c, [kind |-> "raised"])

WriteFailed(c, err) == Return(c, err)

\* scad_file.write(state.script_content) and the close that ends the `with`
\* block: the script as it is now goes into the file, or the write fails
TmpWrite(i, here, next, err) ==
    /\ At(i, here)
    /\ \/ /\ tmp_files' = [tmp_files EXCEPT ![ScadPath(call[i].tmp)] =
                              TmpFile(i, script_content)]
          /\ call' = [call EXCEPT ![i].pc = next]
       \/ /\ tmp_files' = tmp_files
          /\ call' = [call EXCEPT ![i] = WriteFailed(@, err)]
    /\ UNCHANGED <<script_content, state_file, work_files, dispatched>>

\* subprocess.run, first half: Popen starts the compiler on the input file,
\* or raises (no such program) and the finally block runs with err pending
Spawn(i, here, next, err) ==
    /\ At(i, here)
    /\ \/ call' = [call EXCEPT ![i] =
              [@ EXCEPT !.proc = "running",
                        !.fed = tmp_files[ScadPath(call[i].tmp)].data,
                        !.effects = @ \cup {"spawn"},
                        !.pc = next]]
       \/ call' = [call EXCEPT ![i] = [@ EXCEPT !.result = err, !.pc = "cleanup"]]
    /\ UNCHANGED <<script_content, state_file, tmp_files, work_files, dispatched>>

\* subprocess.run on TimeoutExpired: process.kill(), wait, re-raise
OnTimeoutNoKill(c, timed_out) ==
    [c EXCEPT !.result = timed_out, !.pc = "cleanup"]

OnTimeout(c, timed_out) ==
    [c EXCEPT !.proc = "killed", !.result = timed_out, !.pc = "cleanup"]

\* subprocess.run returns a CompletedProcess
OnExitRetry(c, d, rc, stderr, next) ==
    [c EXCEPT !.proc = "exited",
              !.out = [kind |-> "exit", secs |-> d, returncode |-> rc,
                       stderr |-> stderr],
              !.pc = IF rc = 0 THEN next
                     ELSE IF c.op = "render" THEN "r_spawn" ELSE "e_spawn"]

OnExit(c, d, rc, stderr, next) ==
    [c EXCEPT !.proc = "exited",
              !.out = [kind |-> "exit", secs |-> d, returncode |-> rc,
                       stderr |-> stderr],
              !.pc = next]

RenderError == [kind |-> "render_error"]

RenderTimeout == [kind |-> "render_timeout"]

RenderOpen(i) == TmpOpen(i, "r_open", "r_write", RenderError)

RenderWrite(i) == TmpWrite(i, "r_write", "r_spawn", RenderError)

RenderSpawn(i) == Spawn(i, "r_spawn", "r_wait", RenderError)

\* line 147, second half: the compiler runs for d seconds, may write the
\* image, and exits with rc; a run longer than the bound is killed
RenderWait(i) ==
    /\ At(i, "r_wait")
    /\ \E d \in Durations, wrote \in BOOLEAN :
         /\ tmp_files' =
              IF wrote
              THEN [tmp_files EXCEPT ![PngPath(call[i].tmp)] =
                      TmpFile(i, Compiled(call[i].fed,
                                          Lookup(CAMERA_VIEWS, call[i].arg)))]
              ELSE tmp_files
         /\ IF d > RENDER_TIMEOUT
            THEN call' = [call EXCEPT ![i] =
                            OnTimeout([@ EXCEPT !.out = [kind |-> "timeout", secs |-> d]],
                                      RenderTimeout)]
            ELSE \/ call' = [call EXCEPT ![i] = OnExit(@, d, 0, <<>>, "r_check")]
                 \/ \E e \in Diagnostics :
                      call' = [call EXCEPT ![i] = OnExit(@, d, 1, e, "r_check")]
    /\ UNCHANGED <<script_content, state_file, work_files, dispatched>>

\* lines 149-152
ProcErrorNoDetail(prefix, stderr) == [kind |-> "proc_error", text |-> prefix]

ProcError(prefix, stderr) == [kind |-> "proc_error", text |-> prefix \o stderr]

\* lines 149-164: classify the completed run; the finally block runs next
RenderCheck(i) ==
    /\ At(i, "r_check")
    /\ call' = [call EXCEPT ![i] =
          [@ EXCEPT !.pc = "cleanup", !.result =
             IF call[i].out.returncode # 0
             THEN ProcError(MsgRenderError, call[i].out.stderr)
             ELSE IF ~TmpExists(call[i].tmp, "png")
             THEN [kind |-> "render_no_output"]
             ELSE [kind |-> "image",
                   data |-> tmp_files[PngPath(call[i].tmp)].data]]]
    /\ UNCHANGED <<script_content, state_file, tmp_files, work_files, dispatched>>

\* os.unlink(path) inside try/except: the file goes, or the unlink fails, is
\* logged and the file stays
Unlinked(files, paths, kept) ==
    [p \in DOMAIN files |->
        IF p \in paths /\ p \notin kept THEN NoFile ELSE files[p]]

\* the finally block (lines 166-173, 226-232): unlink each temporary path
\* that exists, then the pending return value or exception takes effect
Cleanup(i, op, paths) ==
    /\ At(i, "cleanup")
    /\ call[i].op = op
    /\ \E kept \in SUBSET {p \in paths : tmp_files[p].kind # "absent"} :
         /\ tmp_files' = Unlinked(tmp_files, paths, kept)
         /\ call' = [call EXCEPT ![i] =
               [@ EXCEPT !.pc = "done",
                         !.effects = IF kept = {} THEN @
                                     ELSE @ \cup {"unlink_failed"}]]
    /\ UNCHANGED <<script_content, state_file, work_files, dispatched>>

RenderCleanup(i) ==
    Cleanup(i, "render", {ScadPath(call[i].tmp), PngPath(call[i].tmp)})

\* ------------------------------------------------------- file name inputs
ExtStl == <<".", "s", "t", "l">>

ExtScad == <<".", "s", "c", "a", "d">>

\* str.replace(old, new): every non-overlapping occurrence, left to right
RECURSIVE Replace(_, _, _)
Replace(s, old, new) ==
    IF Len(s) < Len(old) THEN s
    ELSE IF SubSeq(s, 1, Len(old)) = old
    THEN new \o Replace(SubSeq(s, Len(old) + 1, Len(s)), old, new)
    ELSE <<Head(s)>> \o Replace(Tail(s), old, new)

\* filename.replace(ext, '') + ext  (lines 194 and 253)
Normalize(filename, ext) == Replace(filename, ext, <<>>) \o ext

\* file names the calls of the service are given
Filenames == {<<"p">>, <<"p">> \o ExtStl}

\* file names save_openscad_script is given
ScriptNames == {<<"p">>, <<"p">> \o ExtScad}

\* ----------------------------------------------------- export_model_to_stl
CallExport(i) ==
    \E f \in Filenames : Dispatch(i, "export", f, "e_guard")

ExportError == [kind |-> "export_error"]

ExportTimeout == [kind |-> "export_timeout"]

\* lines 190-195: the empty-content guard, then the destination name
ExportGuard(i) ==
    /\ At(i, "e_guard")
    /\ call' = [call EXCEPT ![i] =
          IF NoContent(script_content)
          THEN Return([@ EXCEPT !.snap = script_content],
                      NoContentResult("export"))
          ELSE [@ EXCEPT !.snap = script_content,
                         !.dest = Normalize(call[i].arg, ExtStl),
                         !.pc = "e_open"]]
    /\ UNCHANGED <<script_content, state_file, tmp_files, work_files, dispatched>>

ExportOpen(i) == TmpOpen(i, "e_open", "e_write", ExportError)

ExportWrite(i) == TmpWrite(i, "e_write", "e_spawn", ExportError)

ExportSpawn(i) == Spawn(i, "e_spawn", "e_wait", ExportError)

\* line 212, second half: the compiler runs for d seconds, may write the
\* mesh to the destination, and exits with rc; a run longer than the bound
\* is killed
ExportWait(i) ==
    /\ At(i, "e_wait")
    /\ \E d \in Durations, wrote \in BOOLEAN :
         /\ work_files' =
              IF wrote
              THEN WorkWrite(work_files, call[i].dest, i,
                             Compiled(call[i].fed, "none"))
              ELSE work_files
         /\ IF d > EXPORT_TIMEOUT
            THEN call' = [call EXCEPT ![i] =
                            OnTimeout([@ EXCEPT !.out = [kind |-> "timeout", secs |-> d]],
                                      ExportTimeout)]
            ELSE \/ call' = [call EXCEPT ![i] = OnExit(@, d, 0, <<>>, "e_check")]
                 \/ \E e \in Diagnostics :
                      call' = [call EXCEPT ![i] = OnExit(@, d, 1, e, "e_check")]
    /\ UNCHANGED <<script_content, state_file, tmp_files, dispatched>>

\* lines 214-224: classify the completed run; the finally block runs next
ExportCheckTrusting(i) ==
    /\ At(i, "e_check")
    /\ call' = [call EXCEPT ![i] =
          [@ EXCEPT !.pc = "cleanup", !.result =
             IF call[i].out.returncode # 0
             THEN ProcError(MsgExportError, call[i].out.stderr)
             ELSE [kind |-> "exported", path |-> call[i].dest,
                   file |-> IF WorkExists(call[i].dest)
                            THEN WorkFile(call[i].dest) ELSE NoFile]]]
    /\ UNCHANGED <<script_content, state_file, tmp_files, work_files, dispatched>>

ExportCheck(i) ==
    /\ At(i, "e_check")
    /\ call' = [call EXCEPT ![i] =
          [@ EXCEPT !.pc = "cleanup", !.result =
             IF call[i].out.returncode # 0
             THEN ProcError(MsgExportError, call[i].out.stderr)
             ELSE IF ~WorkExists(call[i].dest)
             THEN [kind |-> "export_no_output"]
             ELSE [kind |-> "exported", path |-> call[i].dest,
                   file |-> WorkFile(call[i].dest)]]]
    /\ UNCHANGED <<script_content, state_file, tmp_files, work_files, dispatched>>

ExportCleanup(i) == Cleanup(i, "export", {ScadPath(call[i].tmp)})

\* ---------------------------------------------------- save_openscad_script
CallSave(i) ==
    \E f \in ScriptNames : Dispatch(i, "save", f, "s_guard")

SaveError == [kind |-> "save_error"]

\* lines 249-254: the empty-content guard, then the destination name
SaveGuard(i) ==
    /\ At(i, "s_guard")
    /\ call' = [call EXCEPT ![i] =
          IF NoContent(script_content)
          THEN Return([@ EXCEPT !.snap = script_content],
                      NoContentResult("save"))
          ELSE [@ EXCEPT !.snap = script_content,
                         !.dest = Normalize(call[i].arg, ExtScad),
                         !.pc = "s_write"]]
    /\ UNCHANGED <<script_content, state_file, tmp_files, work_files, dispatched>>

\* lines 256-257: open the destination for writing (which creates or
\* truncates it) and write the script as it is now; the open may fail, and
\* so may the write after it
SaveWrite(i) ==
    /\ At(i, "s_write")
    /\ \/ /\ work_files' = WorkWrite(work_files, call[i].dest, i, script_content)
          /\ call' = [call EXCEPT ![i] =
                [@ EXCEPT !.fed = script_content,
                          !.effects = @ \cup {"dest"}, !.pc = "s_lines"]]
       \/ /\ work_files' = work_files
          /\ call' = [call EXCEPT ![i] = Return(@, SaveError)]
       \/ /\ work_files' = WorkWrite(work_files, call[i].dest, i, <<>>)
          /\ call' = [call EXCEPT ![i] =
                Return([@ EXCEPT !.effects = @ \cup {"dest"}], SaveError)]
    /\ UNCHANGED <<script_content, state_file, tmp_files, dispatched>>

\* lines 259-261: count the lines of the script as it is now
SaveLines(i) ==
    /\ At(i, "s_lines")
    /\ call' = [call EXCEPT ![i] =
          Return(@, [kind |-> "saved", path |-> call[i].dest,
                     lines |-> SplitLines(script_content)])]
    /\ UNCHANGED <<script_content, state_file, tmp_files, work_files, dispatched>>

\* ------------------------------------------------------ the service at work
Next ==
    \E i \in Workers :
        \/ CallShow(i) \/ ShowGuard(i) \/ ShowRead(i)
        \/ CallCreate(i) \/ CreateAssign(i) \/ CreateSaveOpen(i)
        \/ CreateSaveDump(i)
        \/ CallRender(i) \/ RenderGuard(i) \/ RenderOpen(i) \/ RenderWrite(i)
        \/ RenderSpawn(i) \/ RenderWait(i) \/ RenderCheck(i)
        \/ RenderCleanup(i)
        \/ CallExport(i) \/ ExportGuard(i) \/ ExportOpen(i) \/ ExportWrite(i)
        \/ ExportSpawn(i) \/ ExportWait(i) \/ ExportCheck(i)
        \/ ExportCleanup(i)
        \/ CallSave(i) \/ SaveGuard(i) \/ SaveWrite(i) \/ SaveLines(i)
        \/ Respond(i)

Spec == Init /\ [][Next]_vars

\* ------------------------------------------ one call after createScript(S)
\* create_openscad_script(S) has just been dispatched; the calls that follow
\* it run one at a time and none of them is another create_openscad_script
SeqInit ==
    /\ state_file \in {[kind |-> "missing"],
                       [kind |-> "json", script_content |-> <<"c">>]}
    /\ script_content = load_state(state_file)
    /\ dispatched = 1
    /\ tmp_files = [p \in TmpPaths |-> NoFile]
    /\ work_files = {}
    /\ \E s \in Scripts :
         call = [i \in Workers |->
                   IF i = 1
                   THEN [IdleCall EXCEPT !.op = "create", !.pc = "c_assign",
                                         !.arg = s]
                   ELSE IdleCall]

SeqNext ==
    \E i \in {1} :
        \/ CallShow(i) \/ ShowGuard(i) \/ ShowRead(i)
        \/ CreateAssign(i) \/ CreateSaveOpen(i) \/ CreateSaveDump(i)
        \/ CallRender(i) \/ RenderGuard(i) \/ RenderOpen(i) \/ RenderWrite(i)
        \/ RenderSpawn(i) \/ RenderWait(i) \/ RenderCheck(i)
        \/ RenderCleanup(i)
        \/ CallExport(i) \/ ExportGuard(i) \/ ExportOpen(i) \/ ExportWrite(i)
        \/ ExportSpawn(i) \/ ExportWait(i) \/ ExportCheck(i)
        \/ ExportCleanup(i)
        \/ CallSave(i) \/ SaveGuard(i) \/ SaveWrite(i) \/ SaveLines(i)
        \/ Respond(i)

SeqSpec == SeqInit /\ [][SeqNext]_vars

\* ------------------------------------------------ view_render, every view
\* view names: the presets and names outside the table
AllViews == {"isometric", "front", "back", "left", "right", "top", "bottom",
             "side", "Front", "iso", ""}

\* view_render(view) has just been dispatched, for any view and any script
ViewInit ==
    /\ state_file \in {[kind |-> "missing"]}
            \cup {[kind |-> "json", script_content |-> s] : s \in Scripts}
    /\ script_content = load_state(state_file)
    /\ dispatched = 1
    /\ tmp_files = [p \in TmpPaths |-> NoFile]
    /\ work_files = {}
    /\ \E v \in AllViews :
         call = [i \in Workers |->
                   IF i = 1
                   THEN [IdleCall EXCEPT !.op = "render", !.pc = "r_guard",
                                         !.arg = v]
                   ELSE IdleCall]

ViewNext ==
    \E i \in {1} :
        \/ RenderGuard(i) \/ RenderOpen(i) \/ RenderWrite(i)
        \/ RenderSpawn(i) \/ RenderWait(i) \/ RenderCheck(i)
        \/ RenderCleanup(i) \/ Respond(i)

ViewSpec == ViewInit /\ [][ViewNext]_vars

\* ------------------------------------------- destination names, every name
\* longest file name, in pieces
MaxParts == 3

\* pieces file names are put together from: a stem, the two extensions and
\* the fragments an extension falls into
NameParts == {<<"p">>, ExtStl, ExtScad, <<".", "s">>, <<"t", "l">>,
              <<"c", "a", "d">>}

RECURSIVE NamesOf(_)
NamesOf(n) ==
    IF n = 0 THEN {<<>>}
    ELSE LET shorter == NamesOf(n - 1)
         IN  shorter \cup {a \o b : a \in shorter, b \in NameParts}

Names == NamesOf(MaxParts)

\* export_model_to_stl(name) or save_openscad_script(name) has just been
\* dispatched, for any name, with a script in the scratchpad
NormInit ==
    /\ state_file = [kind |-> "json", script_content |-> <<"c">>]
    /\ script_content = load_state(state_file)
    /\ dispatched = 1
    /\ tmp_files = [p \in TmpPaths |-> NoFile]
    /\ work_files = {}
    /\ \E f \in Names, o \in {"export", "save"} :
         call = [i \in Workers |->
                   IF i = 1
                   THEN [IdleCall EXCEPT
                           !.op = o, !.arg = f,
                           !.pc = IF o = "export" THEN "e_guard" ELSE "s_guard"]
                   ELSE IdleCall]

NormNext == \E i \in {1} : ExportGuard(i) \/ SaveGuard(i)

NormSpec == NormInit /\ [][NormNext]_vars

\* ------------------------------------------------ no create_openscad_script
\* the service starts on any record and is never asked to change the script
ReadInit ==
    /\ state_file \in {[kind |-> "missing"]}
            \cup {[kind |-> "json", script_content |-> s] : s \in Scripts}
    /\ script_content = load_state(state_file)
    /\ dispatched = 0
    /\ tmp_files = [p \in TmpPaths |-> NoFile]
    /\ work_files = {}
    /\ call = [i \in Workers |-> IdleCall]

ReadNext ==
    \E i \in Workers :
        \/ CallShow(i) \/ ShowGuard(i) \/ ShowRead(i)
        \/ CallRender(i) \/ RenderGuard(i) \/ RenderOpen(i) \/ RenderWrite(i)
        \/ RenderSpawn(i) \/ RenderWait(i) \/ RenderCheck(i)
        \/ RenderCleanup(i)
        \/ CallExport(i) \/ ExportGuard(i) \/ ExportOpen(i) \/ ExportWrite(i)
        \/ ExportSpawn(i) \/ ExportWait(i) \/ ExportCheck(i)
        \/ ExportCleanup(i)
        \/ CallSave(i) \/ SaveGuard(i) \/ SaveWrite(i) \/ SaveLines(i)
        \/ Respond(i)

ReadSpec == ReadInit /\ [][ReadNext]_vars

\* ------------------------------------------------- every save_state succeeds
\* the runs in which open(STATE_FILE, 'w') and json.dump never fail
SaveSucceeds == \A i \in Workers : "save_failed" \notin call'[i].effects

PersistNext ==
    \E i \in Workers :
        \/ CallShow(i) \/ ShowGuard(i) \/ ShowRead(i)
        \/ CallCreate(i) \/ CreateAssign(i)
        \/ (CreateSaveOpen(i) /\ SaveSucceeds)
        \/ (CreateSaveDump(i) /\ SaveSucceeds)
        \/ CallRender(i) \/ RenderGuard(i) \/ RenderOpen(i) \/ RenderWrite(i)
        \/ RenderSpawn(i) \/ RenderWait(i) \/ RenderCheck(i)
        \/ RenderCleanup(i)
        \/ CallExport(i) \/ ExportGuard(i) \/ ExportOpen(i) \/ ExportWrite(i)
        \/ ExportSpawn(i) \/ ExportWait(i) \/ ExportCheck(i)
        \/ ExportCleanup(i)
        \/ CallSave(i) \/ SaveGuard(i) \/ SaveWrite(i) \/ SaveLines(i)
        \/ Respond(i)

PersistSpec == Init /\ [][PersistNext]_vars

\* =================================================================== claims
\* text made of whitespace only (or empty)
WhitespaceOnly(s) == \A k \in DOMAIN s : s[k] \in {" ", "\n", "\t"}

Pipeline(c) == c.op \in {"render", "export"}

\* temporary files created by the call of worker i that still exist
TempLeft(i) == {p \in TmpPaths : tmp_files[p].kind = "file" /\ tmp_files[p].owner = i}

\* C1: when view_render or export_model_to_stl returns, on any path, no
\* temporary file the call created exists.
C1_NoTempFileAtReturn ==
    \A i \in Workers :
        (call[i].pc = "done" /\ Pipeline(call[i])) => TempLeft(i) = {}

\* C2: the text in the temporary input file the compiler is started on is
\* the script value the empty-content guard of the same call inspected.
C2_CompilerGetsGuardedSnapshot ==
    \A i \in Workers :
        (Pipeline(call[i]) /\ call[i].proc # "none")
            => call[i].fed = call[i].snap

\* C3: a compiler run that needs more than 30 s (render) or 60 s (export) is
\* killed before the call returns, the call returns the timeout result of
\* its operation, and no call returns with its compiler still running.
C3_TimeoutKillsAndReports ==
    \A i \in Workers :
        LET c == call[i] IN
        /\ c.pc = "done" => c.proc # "running"
        /\ (/\ Pipeline(c)
            /\ c.out.kind # "none"
            /\ \/ c.op = "render" /\ c.out.secs > 30
               \/ c.op = "export" /\ c.out.secs > 60)
           => /\ c.proc = "killed"
              /\ c.pc \in {"cleanup", "done"}
              /\ c.pc = "done" =>
                    c.result = [kind |-> IF c.op = "render"
                                         THEN "render_timeout"
                                         ELSE "export_timeout"]

C3_Witness ==
    \E i \in Workers :
        /\ call[i].pc = "done" /\ call[i].op = "render"
        /\ call[i].out.kind = "timeout" /\ call[i].out.secs = 31
        /\ call[i].proc = "killed"
        /\ call[i].result.kind = "render_timeout"

\* C4: a render, export or save whose guard finds the script empty or
\* whitespace-only returns the "no content" result of its operation at once:
\* no process started, no temporary file created, no destination written.
C4_EmptyScriptNoSideEffect ==
    \A i \in Workers :
        LET c == call[i] IN
        (/\ c.op \in {"render", "export", "save"}
         /\ c.pc \notin {"idle", "r_guard", "e_guard", "s_guard"}
         /\ WhitespaceOnly(c.snap))
        => /\ c.pc = "done"
           /\ c.result = [kind |-> "no_content", to |-> c.op]
           /\ c.effects = {} /\ c.proc = "none" /\ c.tmp = 0
           /\ TempLeft(i) = {}
           /\ \A f \in work_files : f.owner # i

C4_Witness ==
    \E i \in Workers :
        /\ call[i].pc = "done" /\ call[i].op = "render"
        /\ call[i].snap = <<"\n">>
        /\ call[i].result.kind = "no_content"

\* the seven preset names, in the order the error message lists them
SevenViews ==
    <<"isometric", "front", "back", "left", "right", "top", "bottom">>

IsPreset(v) == \E k \in 1..7 : SevenViews[k] = v

\* C5: with a non-empty script, a render of a view that is none of the seven
\* presets returns the error listing exactly the seven names, with no
\* process and no temporary file; a render of a preset passes the lookup.
C5_UnknownViewRejected ==
    \A i \in Workers :
        LET c == call[i] IN
        (/\ c.op = "render"
         /\ c.pc \notin {"idle", "r_guard"}
         /\ ~WhitespaceOnly(c.snap))
        => IF IsPreset(c.arg)
           THEN c.result.kind \notin {"invalid_view", "no_content"}
           ELSE /\ c.pc = "done"
                /\ c.result = [kind |-> "invalid_view", view |-> c.arg,
                               names |-> SevenViews]
                /\ c.effects = {} /\ c.proc = "none" /\ c.tmp = 0
                /\ TempLeft(i) = {}

C5_Witness ==
    \E i \in Workers :
        /\ call[i].pc = "done" /\ call[i].op = "render"
        /\ call[i].arg = "Front" /\ call[i].snap = <<"c">>
        /\ call[i].result.kind = "invalid_view"

\* C6 as stated: createScript(S) then showScript() returns text that
\* contains S, for every S.
C6_RoundTrip ==
    \A i \in Workers :
        (call[i].pc = "done" /\ call[i].op = "show")
            => Contains(call[i].result.text, script_content)

\* C6, amended: createScript(S) then showScript() returns the header
\* followed by exactly S when S has a non-whitespace character, and the
\* fixed "No script content in scratchpad" text when S is empty or
\* whitespace-only.
C6_RoundTripOfContent ==
    \A i \in Workers :
        (call[i].pc = "done" /\ call[i].op = "show")
            => IF WhitespaceOnly(script_content)
               THEN call[i].result = [kind |-> "show_empty", text |-> MsgNoScript]
               ELSE /\ call[i].result.kind = "show"
                    /\ call[i].result.text = MsgCurrentScript \o script_content
                    /\ Contains(call[i].result.text, script_content)

C6_Witness ==
    \E i \in Workers :
        /\ call[i].pc = "done" /\ call[i].op = "show"
        /\ state_file = [kind |-> "json", script_content |-> <<"c">>]
        /\ call[i].result.text = MsgCurrentScript \o <<"c">>

\* the normalization the claim describes: one trailing ext stripped if
\* there, then ext appended
RefNormalize(f, ext) ==
    (IF EndsWith(f, ext) THEN SubSeq(f, 1, Len(f) - Len(ext)) ELSE f) \o ext

ExtOf(c) == IF c.op = "export" THEN ExtStl ELSE ExtScad

Normalized(c) ==
    \/ c.op = "export" /\ c.pc = "e_open"
    \/ c.op = "save" /\ c.pc = "s_write"

\* C7: the destination name is the file name with one trailing extension
\* stripped if present and one extension appended, for every file name.
C7_NormalizeStripsTrailingOnly ==
    \A i \in Workers :
        Normalized(call[i])
            => call[i].dest = RefNormalize(call[i].arg, ExtOf(call[i]))

\* C8: the destination name ends with the extension once, never twice, and
\* normalizing it again returns it unchanged, for every file name.
C8_NoDoubleSuffix ==
    \A i \in Workers :
        Normalized(call[i])
            => LET ext == ExtOf(call[i])
                   dest == call[i].dest
               IN  /\ EndsWith(dest, ext)
                   /\ ~EndsWith(dest, ext \o ext)
                   /\ Normalize(dest, ext) = dest

NonzeroExit(c) ==
    /\ Pipeline(c) /\ c.pc = "done"
    /\ c.out.kind = "exit" /\ c.out.returncode # 0

C10_Created ==
    \A i \in Workers :
        LET c == call[i] IN
        (c.op = "create" /\ c.pc \in {"c_save", "c_dump", "done"})
            => /\ script_content = c.arg
               /\ c.pc = "done" =>
                    /\ c.result.kind = "updated"
                    /\ c.result.chars = Len(c.arg)
                    /\ c.result.lines =
                         1 + Cardinality({k \in 1..Len(c.arg) : c.arg[k] = "\n"})

\* only the assignment of a create_openscad_script changes the script
C10_Kept ==
    (\A i \in Workers : call[i].pc # "c_assign")
        => script_content' = script_content

\* C10: after createScript(S) the in-memory script is S and the call reports
\* success whether or not the durable write succeeded, and nothing but the
\* next createScript changes the script the later calls read.
C10_MemoryAuthoritative == []C10_Created /\ [][C10_Kept]_vars

C10_Witness ==
    \E i \in Workers :
        /\ call[i].pc = "done" /\ call[i].op = "create"
        /\ "save_failed" \in call[i].effects
        /\ state_file = [kind |-> "truncated"]
        /\ call[i].arg = <<"\n">> /\ script_content = <<"\n">>
        /\ call[i].result.kind = "updated"

\* C11: in every reachable state the durable record is a complete record
\* (the one written before or the new one), never an empty, truncated or
\* mixed one.
C11_RecordAlwaysComplete == state_file.kind \in {"missing", "json"}

\* C18: an export that reports success got its destination file from its
\* own compiler run, never from an earlier or another run.
C18_SuccessMeansOwnOutput ==
    \A i \in Workers :
        (/\ call[i].op = "export"
         /\ call[i].pc \in {"cleanup", "done"}
         /\ call[i].result.kind = "exported")
            => call[i].result.file.owner = i

\* C19: a save that reports success wrote the script value its guard
\* accepted, which has a non-whitespace character, and reports the line
\* count of the content it wrote.
C19_SaveOfOneScriptValue ==
    \A i \in Workers :
        (/\ call[i].op = "save"
         /\ call[i].pc = "done"
         /\ call[i].result.kind = "saved")
            => /\ call[i].fed = call[i].snap
               /\ ~WhitespaceOnly(call[i].fed)
               /\ call[i].result.lines =
                    1 + Cardinality({k \in 1..Len(call[i].fed) :
                                        call[i].fed[k] = "\n"})

\* the text show_openscad_script is to return for the script s
ShownFor(s) ==
    IF WhitespaceOnly(s)
    THEN [kind |-> "show_empty", text |-> MsgNoScript]
    ELSE [kind |-> "show", text |-> MsgCurrentScript \o s]

\* with no create_openscad_script, every show returns the text of the script
\* the service started with
C12_ShowsAgree ==
    \A i \in Workers :
        (call[i].pc = "done" /\ call[i].op = "show")
            => call[i].result = ShownFor(load_state(state_file))

\* a step of show, render, export or save changes neither the script nor
\* the durable record
C12_Untouched ==
    script_content' = script_content /\ state_file' = state_file

\* C12: show, render, export and save leave the in-memory script and the
\* durable record unchanged on every path, so every show with no create in
\* between returns the same text.
C12_ReadersLeaveState == []C12_ShowsAgree /\ [][C12_Untouched]_vars

C12_Witness ==
    \E i \in Workers :
        /\ call[i].pc = "done" /\ call[i].op = "show"
        /\ dispatched = 2
        /\ work_files # {}
        /\ state_file = [kind |-> "json", script_content |-> script_content]
        /\ call[i].result.text = MsgCurrentScript \o <<"c">>

\* the texts a tool can return
TextResults(op) ==
    CASE op = "show" -> {"show", "show_empty"}
      [] op = "create" -> {"updated"}
      [] op = "render" -> {"no_content", "invalid_view", "render_error",
                           "render_timeout", "proc_error",
                           "render_no_output", "image"}
      [] op = "export" -> {"no_content", "export_error", "export_timeout",
                           "proc_error", "export_no_output", "exported"}
      [] op = "save" -> {"no_content", "save_error", "saved"}
      [] OTHER -> {}

\* C13: every call that ends, ends with one of its tool's text results,
\* whatever failed on the way (validation, file I/O, spawn, exit status,
\* timeout, cleanup, saving the state).
C13_AlwaysTextResult ==
    \A i \in Workers :
        call[i].pc = "done" => call[i].result.kind \in TextResults(call[i].op)

C13_Witness ==
    \E i \in Workers :
        /\ call[i].pc = "done" /\ call[i].op = "render"
        /\ call[i].proc = "killed"
        /\ "unlink_failed" \in call[i].effects
        /\ call[i].result = RenderTimeout

\* the artifact the check of worker i looks for is there
ArtifactExists(i) ==
    IF call[i].op = "render"
    THEN tmp_files[PngPath(call[i].tmp)].kind = "file"
    ELSE \E f \in work_files : f.name = call[i].dest

\* the step that classifies a run that exited with status zero
C14_CheckStep ==
    \A i \in Workers :
        (/\ call[i].pc \in {"r_check", "e_check"}
         /\ call'[i].pc = "cleanup"
         /\ call[i].out.returncode = 0)
            => call'[i].result.kind =
                 IF call[i].op = "render"
                 THEN (IF ArtifactExists(i) THEN "image" ELSE "render_no_output")
                 ELSE (IF ArtifactExists(i) THEN "exported" ELSE "export_no_output")

\* a success result is only ever set by that step
C14_SuccessOnlyFromCheck ==
    \A i \in Workers :
        (call'[i].result.kind \in {"image", "exported"}
            /\ call[i].result.kind \notin {"image", "exported"})
            => /\ call[i].pc \in {"r_check", "e_check"}
               /\ call[i].out.kind = "exit" /\ call[i].out.returncode = 0
               /\ ArtifactExists(i)

\* C14: after exit status zero, render and export return the missing-output
\* failure when the artifact is absent at the check, and success only when
\* it exists at the check.
C14_MissingOutputIsFailure ==
    [][C14_CheckStep /\ C14_SuccessOnlyFromCheck]_vars

C14_Witness ==
    \E i \in Workers :
        /\ call[i].pc = "done" /\ call[i].op = "export"
        /\ call[i].out.kind = "exit" /\ call[i].out.returncode = 0
        /\ call[i].result.kind = "export_no_output"
        /\ ~ArtifactExists(i)

\* C15: whenever no create_openscad_script is in flight and no save of the
\* state has failed, loading the durable record yields the in-memory script.
C15_RecordFollowsMemory ==
    (\A i \in Workers : call[i].op # "create")
        => load_state(state_file) = script_content

\* the call of worker i went past its validation
Validated(c) == Pipeline(c) /\ c.result.kind \notin {"no_content", "invalid_view"}

\* C16 as stated: every returned render or export call that passed
\* validation has run the compiler.
C16_ExactlyOneInvocation ==
    \A i \in Workers :
        (call[i].pc = "done" /\ Validated(call[i]))
            => call[i].proc \in {"exited", "killed"}

\* a returned call ran no compiler exactly when validation failed or the
\* temporary input file or the process could not be set up
C16_InvokedUnlessSetupFailed ==
    \A i \in Workers :
        (call[i].pc = "done" /\ Pipeline(call[i]))
            => /\ call[i].proc \in {"none", "exited", "killed"}
               /\ ~Validated(call[i])
                    => call[i].proc = "none" /\ "spawn" \notin call[i].effects
               /\ (Validated(call[i]) /\ call[i].proc = "none")
                    => call[i].result \in {RenderError, ExportError}
               /\ call[i].result.kind \in
                      {"proc_error", "render_no_output", "export_no_output",
                       "render_timeout", "export_timeout", "image", "exported"}
                    => call[i].proc \in {"exited", "killed"}

\* a compiler starts only for a call that has started none, on the written
\* and still existing input file; a call reaches the start only by the write
C16_StartsOnce ==
    \A i \in Workers :
        /\ (call'[i].proc = "running" /\ call[i].proc # "running")
              => /\ call[i].proc = "none"
                 /\ call[i].pc \in {"r_spawn", "e_spawn"}
                 /\ "unlink_failed" \notin call[i].effects
                 /\ tmp_files[ScadPath(call[i].tmp)].kind = "file"
                 /\ call'[i].fed = tmp_files[ScadPath(call[i].tmp)].data
        /\ (call'[i].pc \in {"r_spawn", "e_spawn"}
              /\ call[i].pc \notin {"r_spawn", "e_spawn"})
              => /\ call[i].pc \in {"r_write", "e_write"}
                 /\ tmp_files'[ScadPath(call[i].tmp)] = TmpFile(i, script_content)
        /\ call[i].proc \in {"exited", "killed"}
              => call'[i].proc \in {call[i].proc, "none"}

\* C16 (amended): at most one compiler run per call and none on failed
\* validation; exactly one unless the temporary input file could not be
\* created or written or the process could not be started; the run starts
\* after the input file is written and before cleanup.
C16_AtMostOneInvocation ==
    []C16_InvokedUnlessSetupFailed /\ [][C16_StartsOnce]_vars

C16_Witness ==
    \E i \in Workers :
        /\ call[i].pc = "done" /\ call[i].op = "render"
        /\ call[i].proc = "exited" /\ call[i].out.returncode = 1
        /\ "spawn" \in call[i].effects
        /\ call[i].result.kind = "proc_error"

\* calls in flight that took a temporary name took different ones
C17_TmpDistinct ==
    \A i, j \in Workers :
        (i # j /\ call[i].tmp # 0 /\ call[j].tmp # 0)
            => call[i].tmp # call[j].tmp

\* a temporary file of a call in flight is removed only by that call's
\* cleanup
C17_OwnCleanupOnly ==
    \A p \in TmpPaths :
        (/\ tmp_files[p].kind = "file"
         /\ tmp_files[p].owner # 0
         /\ tmp_files'[p].kind = "absent")
            => /\ call[tmp_files[p].owner].pc = "cleanup"
               /\ call'[tmp_files[p].owner].pc = "done"

\* no call writes a path that another call in flight has written
C17_NoSharedWrite ==
    \A i, j \in Workers :
        \A f \in work_files, g \in work_files' :
            (i # j /\ f.owner = j /\ g.name = f.name) => g.owner # i

\* C17: concurrent render and export calls never share a temporary path,
\* never remove each other's temporary files, and no path of the file system
\* is written by two calls in flight.
C17_PathsPrivate ==
    []C17_TmpDistinct /\ [][C17_OwnCleanupOnly /\ C17_NoSharedWrite]_vars

====
